---------------------------- MODULE Spec2Model ----------------------------
(***************************************************************************)
(* Elementium evaluation core: Registry, Element/Variable kinds, Formula   *)
(* evaluation, Variable re-entrancy lock, Character queries.                *)
(*                                                                         *)
(* The specifications share the state:                                     *)
(*   Spec        - evaluation of variables on one constructed Character    *)
(*                 (get_variable / calculated_variables), in small steps;  *)
(*   LiveSpec    - Spec with the running call scheduled fairly;            *)
(*   SpecConc    - the same evaluation run by two threads (LiveConc: with  *)
(*                 both threads scheduled fairly);                         *)
(*   SpecReg     - definition of element kinds, registration, Character    *)
(*                 construction and count_elements queries;                *)
(*   SpecDef     - class statements, well-formed or not, and direct calls  *)
(*                 of Registry.register / get / __getitem__;               *)
(*   SpecChoices - a kind with options and granted references, get_choices *)
(*                 and count_elements on its Characters.                   *)
(***************************************************************************)
EXTENDS Integers, Sequences, FiniteSets, TLC

(***************************************************************************)
(* Bounds of the model                                                     *)
(***************************************************************************)
MaxDepth == 9
MaxChars == 1

(***************************************************************************)
(* Types (core/element.py)                                                 *)
(***************************************************************************)
VARIABLE_T == 0
SPELL_T == 20
ITEM_T == 45
CLASS_T == 80

(***************************************************************************)
(* Element references: a descriptor (class) or a (type, id) pair           *)
(***************************************************************************)
ClsRef(c) == [kind |-> "cls", cls |-> c, type |-> 0, id |-> ""]
PairRef(t, i) == [kind |-> "pair", cls |-> "", type |-> t, id |-> i]
NoRef == [kind |-> "none", cls |-> "", type |-> 0, id |-> ""]

(***************************************************************************)
(* Formula syntax trees, flattened: a formula is a sequence of nodes, node *)
(* 1 is the root and l, r, c are the positions of the operand formulas.    *)
(***************************************************************************)
Node(op, x, name, ref, f, l, r, c) ==
    [op |-> op, x |-> x, name |-> name, ref |-> ref, f |-> f,
     l |-> l, r |-> r, c |-> c]
NConst(x) == Node("const", x, "", NoRef, "", 0, 0, 0)
NVar(name) == Node("var", 0, name, NoRef, "", 0, 0, 0)
NCount(ref) == Node("count", 0, "", ref, "", 0, 0, 0)
NHas(ref) == Node("has", 0, "", ref, "", 0, 0, 0)
NIf(c, t, f) == Node("if", 0, "", NoRef, "", t, f, c)
NBin(f, l, r) == Node("bin", 0, "", NoRef, f, l, r, 0)

FConst(x) == << NConst(x) >>
FVar(v) == << NVar(v) >>
FVarOp(f, v, k) == << NBin(f, 2, 3), NVar(v), NConst(k) >>
FVarVar(f, v, w) == << NBin(f, 2, 3), NVar(v), NVar(w) >>
FConstOp(f, a, b) == << NBin(f, 2, 3), NConst(a), NConst(b) >>
FCount(ref) == << NCount(ref) >>
FCountOp(f, ref, k) == << NBin(f, 2, 3), NCount(ref), NConst(k) >>
FIfHas(ref, v, w) == << NIf(2, 3, 4), NHas(ref), NVar(v), NVar(w) >>
FIfHasElse(ref, v, k) == << NIf(2, 3, 4), NHas(ref), NVar(v), NConst(k) >>

(***************************************************************************)
(* The content modules the model can load: one formula per Variable kind.  *)
(***************************************************************************)
Vars == {"A", "B", "C"}

Wiz == PairRef(CLASS_T, "wizard")
Rogue == PairRef(CLASS_T, "rogue")

Programs ==
    << \* shared dependency: A -> C, B -> C
       [A |-> FVarOp("add", "C", 1), B |-> FVarOp("mul", "C", 2),
        C |-> FCountOp("mul", Wiz, 4)],
       \* one formula reads C twice, B reads A and C
       [A |-> FVarVar("add", "C", "C"), B |-> FVarVar("sub", "A", "C"),
        C |-> FConst(3)],
       \* A reads A
       [A |-> FVar("A"), B |-> FVarOp("add", "A", 1), C |-> FConst(1)],
       \* A reads B, B reads A
       [A |-> FVar("B"), B |-> FVarOp("add", "A", 1), C |-> FVarVar("add", "C", "A")],
       \* A -> B -> C -> A
       [A |-> FVar("B"), B |-> FVar("C"), C |-> FVarOp("floordiv", "A", 2)],
       \* a formula that fails by itself
       [A |-> FConstOp("floordiv", 1, 0), B |-> FVarOp("add", "A", 1),
        C |-> FConst(1)],
       \* failure after a successful nested evaluation; lookup failures
       [A |-> FCount(Rogue), B |-> FVarOp("floordiv", "C", 0),
        C |-> FCount(ClsRef("Wizard"))],
       \* conditionals: the cycle is in one branch only
       [A |-> FIfHas(Wiz, "B", "A"), B |-> FConst(2),
        C |-> FIfHasElse(Wiz, "C", 7)],
       \* a formula that reads a variable nobody registered
       [A |-> FVar("Z"), B |-> FVarVar("add", "C", "A"), C |-> FConst(5)],
       \* acyclic, with a conditional choosing which variable is read
       [A |-> FIfHas(PairRef(SPELL_T, "wizard"), "B", "C"),
        B |-> FVarOp("add", "C", 1), C |-> FCount(PairRef(CLASS_T, "fighter"))],
       \* a chain A -> B -> C whose last formula fails
       [A |-> FVar("B"), B |-> FVarOp("add", "C", 1),
        C |-> FConstOp("floordiv", 1, 0)],
       \* B is evaluated and left before the cycle on C is entered
       [A |-> FVarVar("sub", "B", "C"), B |-> FConst(4), C |-> FVarOp("mul", "C", 2)]
    >>

VARIABLES
    prog,       \* which content module is loaded (index into Programs)
    registry,   \* Registry.registry: type -> classes in insertion order
    defined,    \* the element kinds whose class statement has succeeded
    chars,      \* the Characters: [elements: type -> sequence of instances]
    nextOid,    \* identity of the next object created
    focus,      \* per thread: what the interpreter is executing
    stack,      \* per thread: the suspended callers
    acc,        \* per thread: the dict calculated_variables is building
    out,        \* per thread: how the last outermost call ended
    req,        \* per thread: the outermost call made
    calls,      \* per Character: outermost evaluation calls started (0, 1, many)
    invoked,    \* per thread: Formula invocations per variable in this call
    reent,      \* per thread: the first variable re-entered in this call
    last        \* the last registry / construction / query operation

vars == << prog, registry, defined, chars, nextOid, focus, stack, acc, out,
           req, calls, invoked, reent, last >>


Threads == {1, 2}
\* the thread of the single-threaded caller
Main == CHOOSE t \in Threads : \A u \in Threads : t <= u

(***************************************************************************)
(* Element kinds (class statements of the content modules).  register is   *)
(* the register= keyword of the class statement; isVar: subclass of        *)
(* Variable.                                                               *)
(***************************************************************************)
Cls(type, id, isVar, register) ==
    [type |-> type, id |-> id, isVar |-> isVar, register |-> register]

ClassDef(c) ==
    CASE c = "Wizard"      -> Cls(CLASS_T, "wizard", FALSE, TRUE)
      [] c = "Fighter"     -> Cls(CLASS_T, "fighter", FALSE, TRUE)
      [] c = "WizardSpell" -> Cls(SPELL_T, "wizard", FALSE, TRUE)
      [] c = "RogueKind"   -> Cls(CLASS_T, "rogue", FALSE, FALSE)
      [] c = "WizardAgain" -> Cls(CLASS_T, "wizard", FALSE, TRUE)
      [] c = "VarA"        -> Cls(VARIABLE_T, "A", TRUE, TRUE)
      [] c = "VarB"        -> Cls(VARIABLE_T, "B", TRUE, TRUE)
      [] c = "VarC"        -> Cls(VARIABLE_T, "C", TRUE, TRUE)
      [] c = "Apprentice"  -> Cls(CLASS_T, "apprentice", FALSE, TRUE)
      [] c = "Variable"    -> Cls(VARIABLE_T, "", FALSE, FALSE)
      [] c = "NoType"      -> Cls(CLASS_T, "notype", FALSE, TRUE)
      [] c = "NoId"        -> Cls(SPELL_T, "", FALSE, TRUE)
      [] c = "NoName"      -> Cls(ITEM_T, "sword", FALSE, TRUE)
      [] c = "LooseItem"   -> Cls(ITEM_T, "", FALSE, TRUE)
      [] c = "LooseSpell"  -> Cls(SPELL_T, "loose", FALSE, TRUE)
      [] c = "VarNoFormula" -> Cls(VARIABLE_T, "D", TRUE, TRUE)
      [] c = "VarNoId"     -> Cls(VARIABLE_T, "", TRUE, TRUE)
      [] OTHER             -> Cls(CLASS_T, "", FALSE, FALSE)

\* What a class statement makes resolvable: hasattr(cls, 'type' / 'id' /
\* 'name' / 'formula') after the keywords, the class body, the base classes
\* and the module's default_type are taken into account; check is the
\* _check= keyword.  The type and id of ClassDef are meaningful only when
\* resolvable.
Attrs(type, id, name, formula, check) ==
    [type |-> type, id |-> id, name |-> name, formula |-> formula, check |-> check]

Declared(c) ==
    CASE c = "Variable"     -> Attrs(TRUE, FALSE, FALSE, FALSE, FALSE)
      [] c = "NoType"       -> Attrs(FALSE, TRUE, TRUE, FALSE, TRUE)
      [] c = "NoId"         -> Attrs(TRUE, FALSE, TRUE, FALSE, TRUE)
      [] c = "NoName"       -> Attrs(TRUE, TRUE, FALSE, FALSE, TRUE)
      [] c = "LooseItem"    -> Attrs(TRUE, FALSE, TRUE, FALSE, FALSE)
      [] c = "LooseSpell"   -> Attrs(TRUE, TRUE, FALSE, FALSE, FALSE)
      [] c = "VarNoFormula" -> Attrs(TRUE, TRUE, TRUE, FALSE, TRUE)
      [] c = "VarNoId"      -> Attrs(TRUE, FALSE, TRUE, TRUE, TRUE)
      [] OTHER              -> Attrs(TRUE, TRUE, TRUE, ClassDef(c).isVar, TRUE)

\* Variable.formula of a Variable kind, bound by the loaded content module
FormulaOf(c) == Programs[prog][ClassDef(c).id]

(***************************************************************************)
(* Options and granted references of the element kinds.  A candidate of an *)
(* option is a descriptor (ClsRef), a (type, id) pair (PairRef), a         *)
(* (type, predicate) pair or a bare type.                                  *)
(***************************************************************************)
PredCand(t, p) == [kind |-> "pred", cls |-> "", type |-> t, id |-> p]
TypeCand(t) == [kind |-> "type", cls |-> "", type |-> t, id |-> ""]

\* the predicates the options of this content use, applied to a descriptor
SpecHolds(p, cls) ==
    CASE p = "id_is_B" -> ClassDef(cls).id = "B"
      [] OTHER -> FALSE

\* cls.options: the candidate list of each option (the chosen-count aside)
Options(c) ==
    CASE c = "Apprentice" ->
           << << TypeCand(VARIABLE_T) >>,
              << PredCand(VARIABLE_T, "id_is_B"), ClsRef("WizardSpell") >>,
              << PairRef(VARIABLE_T, "A"), TypeCand(ITEM_T) >> >>
      [] OTHER -> << >>

\* cls.granted
Granted(c) ==
    CASE c = "Apprentice" -> << PairRef(SPELL_T, "wizard") >>
      [] OTHER -> << >>

\* the descriptors a class statement names in its options and granted list
NamedBy(c) ==
    ( UNION {{Options(c)[o][i].cls : i \in DOMAIN Options(c)[o]} :
                o \in DOMAIN Options(c)}
      \cup {Granted(c)[i].cls : i \in DOMAIN Granted(c)} ) \ {""}

(***************************************************************************)
(* Registry (core/registry.py)                                             *)
(***************************************************************************)
EmptyMap == [t \in {} |-> << >>]

\* dict.setdefault(key, []) followed by append / dict.setdefault(key, {})
SetDefault(m, k) == [t \in DOMAIN m \cup {k} |-> IF t \in DOMAIN m THEN m[t] ELSE << >>]

RegIds(reg, t) == {ClassDef(reg[t][i]).id : i \in DOMAIN reg[t]}

\* RegistryRegister, refusing only a descriptor that is registered already
RegistryRegisterByDescriptor(reg, cls) ==
    IF cls = "Element"
    THEN [e |-> "TypeError", reg |-> reg]
    ELSE LET r1 == SetDefault(reg, ClassDef(cls).type)
             ty == ClassDef(cls).type
         IN IF \E i \in DOMAIN r1[ty] : r1[ty][i] = cls
            THEN [e |-> "ValueError", reg |-> r1]
            ELSE [e |-> "", reg |-> [r1 EXCEPT ![ty] = Append(@, cls)]]

\* RegistryRegister, binding the id to the new descriptor when it is taken
RegistryRegisterRebinds(reg, cls) ==
    IF cls = "Element"
    THEN [e |-> "TypeError", reg |-> reg]
    ELSE LET r1 == SetDefault(reg, ClassDef(cls).type)
             ty == ClassDef(cls).type
         IN IF ClassDef(cls).id \in RegIds(r1, ty)
            THEN [e |-> "",
                  reg |-> [r1 EXCEPT ![ty] =
                             [i \in DOMAIN @ |->
                                IF ClassDef(@[i]).id = ClassDef(cls).id
                                THEN cls ELSE @[i]]]]
            ELSE [e |-> "", reg |-> [r1 EXCEPT ![ty] = Append(@, cls)]]

\* Registry.register: the error raised ("" for none) and the registry after
RegistryRegister(reg, cls) ==
    IF cls = "Element"
    THEN [e |-> "TypeError", reg |-> reg]
    ELSE IF ~Declared(cls).type
    THEN [e |-> "AttributeError", reg |-> reg]
    ELSE LET r1 == SetDefault(reg, ClassDef(cls).type)
             ty == ClassDef(cls).type
         IN IF ~Declared(cls).id
            THEN [e |-> "AttributeError", reg |-> r1]
            ELSE IF ClassDef(cls).id \in RegIds(r1, ty)
            THEN [e |-> "ValueError", reg |-> r1]
            ELSE [e |-> "", reg |-> [r1 EXCEPT ![ty] = Append(@, cls)]]

(***************************************************************************)
(* Class statements (core/element.py, core/variable.py)                    *)
(***************************************************************************)
\* ElementInitSubclass, registering the kind before its metadata is checked
ElementInitSubclassRegistersFirst(reg, cls) ==
    LET d == Declared(cls)
        r == IF ClassDef(cls).register THEN RegistryRegister(reg, cls)
             ELSE [e |-> "", reg |-> reg]
    IN IF d.check /\ ~(d.type /\ d.id /\ d.name)
       THEN [e |-> "TypeError", reg |-> r.reg]
       ELSE r

\* Element.__init_subclass__: the error raised ("" for none) and the
\* registry after
ElementInitSubclass(reg, cls) ==
    LET d == Declared(cls)
    IN IF d.check /\ ~(d.type /\ d.id /\ d.name)
       THEN [e |-> "TypeError", reg |-> reg]
       ELSE IF ~ClassDef(cls).register
       THEN [e |-> "", reg |-> reg]
       ELSE RegistryRegister(reg, cls)

\* Variable.__init_subclass__
VariableInitSubclass(reg, cls) ==
    IF ~Declared(cls).formula
    THEN [e |-> "TypeError", reg |-> reg]
    ELSE ElementInitSubclass(reg, cls)

\* the __init_subclass__ a class statement runs: that of Variable for the
\* subclasses of Variable, that of Element otherwise
InitSubclass(reg, cls) ==
    IF ClassDef(cls).isVar THEN VariableInitSubclass(reg, cls)
    ELSE ElementInitSubclass(reg, cls)

\* Registry.get: self.registry[type][id]
RegistryGet(reg, ty, id) ==
    IF ty \notin DOMAIN reg \/ id \notin RegIds(reg, ty)
    THEN [e |-> "KeyError", cls |-> ""]
    ELSE [e |-> "",
          cls |-> reg[ty][CHOOSE i \in DOMAIN reg[ty] : ClassDef(reg[ty][i]).id = id]]

\* Registry.__getitem__: self.registry.get(type, {})
RegistryItems(reg, ty) == IF ty \in DOMAIN reg THEN reg[ty] ELSE << >>

(***************************************************************************)
(* Character (core/character.py)                                           *)
(***************************************************************************)
Inst(cls, oid) == [cls |-> cls, lock |-> FALSE, oid |-> oid]

\* AddElements, skipping a reference the registry does not know
RECURSIVE AddElementsSkipsUnknown(_, _, _, _, _)
AddElementsSkipsUnknown(list, i, reg, groups, oid) ==
    IF i > Len(list)
    THEN [e |-> "", groups |-> groups, oid |-> oid]
    ELSE LET ref == list[i]
             got == IF ref.kind = "pair"
                    THEN RegistryGet(reg, ref.type, ref.id)
                    ELSE [e |-> "", cls |-> ref.cls]
         IN IF got.e # ""
            THEN AddElementsSkipsUnknown(list, i + 1, reg, groups, oid)
            ELSE LET ty == ClassDef(got.cls).type
                     g1 == SetDefault(groups, ty)
                 IN AddElementsSkipsUnknown(list, i + 1, reg,
                                [g1 EXCEPT ![ty] = Append(@, Inst(got.cls, oid))],
                                oid + 1)

\* __init__, first loop: resolve each reference and append an instance
RECURSIVE AddElements(_, _, _, _, _)
AddElements(list, i, reg, groups, oid) ==
    IF i > Len(list)
    THEN [e |-> "", groups |-> groups, oid |-> oid]
    ELSE LET ref == list[i]
             got == IF ref.kind = "pair"
                    THEN RegistryGet(reg, ref.type, ref.id)
                    ELSE [e |-> "", cls |-> ref.cls]
         IN IF got.e # ""
            THEN [e |-> got.e, groups |-> groups, oid |-> oid]
            ELSE LET ty == ClassDef(got.cls).type
                     g1 == SetDefault(groups, ty)
                 IN AddElements(list, i + 1, reg,
                                [g1 EXCEPT ![ty] = Append(@, Inst(got.cls, oid))],
                                oid + 1)

\* __init__, second loop: one instance of every registered Variable kind
RECURSIVE AddVariables(_, _, _, _)
AddVariables(items, i, groups, oid) ==
    IF i > Len(items)
    THEN [e |-> "", groups |-> groups, oid |-> oid]
    ELSE IF ~(ClassDef(items[i]).isVar /\ ClassDef(items[i]).type = VARIABLE_T)
         THEN [e |-> "AssertionError", groups |-> groups, oid |-> oid]
         ELSE AddVariables(items, i + 1,
                           [groups EXCEPT ![VARIABLE_T] = Append(@, Inst(items[i], oid))],
                           oid + 1)

\* CharacterInit, keeping the Variable instances the explicit list created
CharacterInitKeepsExplicit(list, reg, oid) ==
    LET first == AddElements(list, 1, reg, EmptyMap, oid)
    IN IF first.e # ""
       THEN [e |-> first.e, ch |-> [elements |-> EmptyMap], oid |-> first.oid]
       ELSE LET g1 == SetDefault(first.groups, VARIABLE_T)
                second == AddVariables(RegistryItems(reg, VARIABLE_T), 1, g1, first.oid)
            IN [e |-> second.e, ch |-> [elements |-> second.groups], oid |-> second.oid]

\* Character.__init__: the error raised ("" for none), the Character and
\* the next free object identity
CharacterInit(list, reg, oid) ==
    LET first == AddElements(list, 1, reg, EmptyMap, oid)
    IN IF first.e # ""
       THEN [e |-> first.e, ch |-> [elements |-> EmptyMap], oid |-> first.oid]
       ELSE LET g1 == SetDefault(first.groups, VARIABLE_T)
                g2 == [g1 EXCEPT ![VARIABLE_T] = << >>]
                second == AddVariables(RegistryItems(reg, VARIABLE_T), 1, g2, first.oid)
            IN [e |-> second.e, ch |-> [elements |-> second.groups], oid |-> second.oid]

\* Character.get_elements_by_type: self.elements.get(type, [])
GetElementsByType(ch, ty) ==
    IF ty \in DOMAIN ch.elements THEN ch.elements[ty] ELSE << >>

\* sum(element.id == x.id for x in group)
RECURSIVE SumIdMatches(_, _, _)
SumIdMatches(group, i, id) ==
    IF i > Len(group) THEN 0
    ELSE (IF ClassDef(group[i].cls).id = id THEN 1 ELSE 0)
         + SumIdMatches(group, i + 1, id)

\* CountElements, matching the id in every group of the Character
CountElementsAnyType(ch, ref, reg) ==
    LET got == IF ref.kind = "pair"
               THEN RegistryGet(reg, ref.type, ref.id)
               ELSE [e |-> "", cls |-> ref.cls]
        RECURSIVE Total(_)
        Total(tys) ==
            IF tys = {} THEN 0
            ELSE LET ty == CHOOSE x \in tys : TRUE
                 IN SumIdMatches(ch.elements[ty], 1, ClassDef(got.cls).id)
                    + Total(tys \ {ty})
    IN IF got.e # ""
       THEN [e |-> got.e, x |-> 0]
       ELSE [e |-> "", x |-> Total(DOMAIN ch.elements)]

\* Character.count_elements: the error raised ("" for none) and the count
CountElements(ch, ref, reg) ==
    LET got == IF ref.kind = "pair"
               THEN RegistryGet(reg, ref.type, ref.id)
               ELSE [e |-> "", cls |-> ref.cls]
    IN IF got.e # ""
       THEN [e |-> got.e, x |-> 0]
       ELSE [e |-> "",
             x |-> SumIdMatches(GetElementsByType(ch, ClassDef(got.cls).type), 1,
                                ClassDef(got.cls).id)]

\* set.add on a set kept as a sequence without duplicates
SetAdd(res, cls) ==
    IF \E i \in DOMAIN res : res[i] = cls THEN res ELSE Append(res, cls)

\* res.update(items) / the loop adding the items that satisfy the predicate
RECURSIVE AddItems(_, _, _, _)
AddItems(res, items, i, p) ==
    IF i > Len(items) THEN res
    ELSE AddItems(IF p = "" \/ SpecHolds(p, items[i]) THEN SetAdd(res, items[i]) ELSE res,
                  items, i + 1, p)

\* Element.get_choices, the loop over the candidates of the option
RECURSIVE ResolveChoices(_, _, _, _)
ResolveChoices(choices, i, reg, res) ==
    IF i > Len(choices)
    THEN [e |-> "", res |-> res]
    ELSE LET ch == choices[i]
             got == RegistryGet(reg, ch.type, ch.id)
         IN CASE ch.kind = "cls" ->
                   ResolveChoices(choices, i + 1, reg, SetAdd(res, ch.cls))
              [] ch.kind = "pair" ->
                   IF got.e # "" THEN [e |-> got.e, res |-> << >>]
                   ELSE ResolveChoices(choices, i + 1, reg, SetAdd(res, got.cls))
              [] ch.kind = "pred" ->
                   ResolveChoices(choices, i + 1, reg,
                                  AddItems(res, RegistryItems(reg, ch.type), 1, ch.id))
              [] ch.kind = "type" ->
                   ResolveChoices(choices, i + 1, reg,
                                  AddItems(res, RegistryItems(reg, ch.type), 1, ""))

\* Element.get_choices(option) of an instance of cls, option >= 0: the error
\* raised ("" for none) and the set returned
GetChoices(cls, option, reg) ==
    IF option >= Len(Options(cls))
    THEN [e |-> "IndexError", res |-> << >>]
    ELSE ResolveChoices(Options(cls)[option + 1], 1, reg, << >>)

\* Character.variables: dict id -> instance built over the VARIABLE group;
\* the position of the instance the dict holds for id, 0 when there is none
VariablesLookup(ch, id) ==
    LET g == ch.elements[VARIABLE_T]
        hits == {i \in DOMAIN g : ClassDef(g[i].cls).id = id}
    IN IF hits = {} THEN 0 ELSE CHOOSE i \in hits : \A j \in hits : j <= i

(***************************************************************************)
(* Interpreter state of one thread                                         *)
(*   focus.m: "idle"  no call in progress                                  *)
(*            "check" at `if self._lock` of Variable.__call__ of instance v*)
(*            "set"   at `self._lock = True` of instance v                 *)
(*            "eval"  about to evaluate node n of the formula of v         *)
(*            "ret"   value x is being returned to the frame on top        *)
(*            "raise" exception e (of variable ev) is propagating          *)
(***************************************************************************)
Focus(m, ch, v, n, x, e, ev) ==
    [m |-> m, ch |-> ch, v |-> v, n |-> n, x |-> x, e |-> e, ev |-> ev]
Idle == Focus("idle", 0, 0, 0, 0, "", 0)
Frame(k, v, n, x) == [k |-> k, v |-> v, n |-> n, x |-> x]
Outcome(kind, x, e, ev, m) == [kind |-> kind, x |-> x, e |-> e, ev |-> ev, m |-> m]
NoOutcome == Outcome("none", 0, "", 0, << >>)
Request(op, ch, id) == [op |-> op, ch |-> ch, id |-> id]
NoRequest == Request("none", 0, "")
ZeroCount == [v \in Vars |-> 0]

VarGroup(c) == chars[c].elements[VARIABLE_T]
InstId(c, v) == ClassDef(VarGroup(c)[v].cls).id
Lock(c, v) == VarGroup(c)[v].lock
SetLockOf(c, v, b) == [chars EXCEPT ![c].elements[VARIABLE_T][v].lock = b]
CurNode(t) == FormulaOf(VarGroup(focus[t].ch)[focus[t].v].cls)[focus[t].n]
Top(t) == stack[t][Len(stack[t])]
Pop(t) == SubSeq(stack[t], 1, Len(stack[t]) - 1)
\* the instances whose Variable.__call__ is active on thread t
Chain(t) == {stack[t][i].v : i \in {j \in DOMAIN stack[t] : stack[t][j].k = "var"}}

RegUnchanged == UNCHANGED << prog, registry, defined, nextOid, last >>

\* floor division of Python ints
FloorDiv(a, b) == IF b > 0 THEN a \div b ELSE (0 - a) \div (0 - b)

\* operator.add / sub / mul / floordiv
BinOp(f, a, b) ==
    CASE f = "add" -> [e |-> "", x |-> a + b]
      [] f = "sub" -> [e |-> "", x |-> a - b]
      [] f = "mul" -> [e |-> "", x |-> a * b]
      [] f = "floordiv" -> IF b = 0 THEN [e |-> "ZeroDivisionError", x |-> 0]
                           ELSE [e |-> "", x |-> FloorDiv(a, b)]

\* Character.get_variable: self.variables[id]() up to the call of the instance
EnterGetVariable(c, id) ==
    LET i == VariablesLookup(chars[c], id)
    IN IF i = 0 THEN Focus("raise", c, 0, 0, 0, "KeyError", 0)
       ELSE Focus("check", c, i, 0, 0, "", 0)

(***************************************************************************)
(* Outermost calls                                                         *)
(***************************************************************************)
StartCall(t, c) ==
    /\ focus[t].m = "idle"
    /\ stack' = [stack EXCEPT ![t] = << >>]
    /\ acc' = [acc EXCEPT ![t] = << >>]
    /\ out' = [out EXCEPT ![t] = NoOutcome]
    /\ calls' = [calls EXCEPT ![c] = IF @ < 2 THEN @ + 1 ELSE 2]
    /\ invoked' = [invoked EXCEPT ![t] = ZeroCount]
    /\ reent' = [reent EXCEPT ![t] = ""]

\* character.get_variable(id) called from outside any evaluation
GetVariable(t, c, id) ==
    /\ StartCall(t, c)
    /\ req' = [req EXCEPT ![t] = Request("get", c, id)]
    /\ focus' = [focus EXCEPT ![t] = EnterGetVariable(c, id)]
    /\ UNCHANGED chars
    /\ RegUnchanged

\* character.calculated_variables called from outside any evaluation
CalculatedVariables(t, c) ==
    /\ focus[t].m = "idle"
    /\ acc' = [acc EXCEPT ![t] = << >>]
    /\ calls' = [calls EXCEPT ![c] = IF @ < 2 THEN @ + 1 ELSE 2]
    /\ invoked' = [invoked EXCEPT ![t] = ZeroCount]
    /\ reent' = [reent EXCEPT ![t] = ""]
    /\ req' = [req EXCEPT ![t] = Request("all", c, "")]
    /\ IF Len(VarGroup(c)) = 0
       THEN /\ out' = [out EXCEPT ![t] = Outcome("map", 0, "", 0, << >>)]
            /\ stack' = [stack EXCEPT ![t] = << >>]
            /\ focus' = [focus EXCEPT ![t] = Idle]
       ELSE /\ out' = [out EXCEPT ![t] = NoOutcome]
            /\ stack' = [stack EXCEPT ![t] = << Frame("batch", 1, 0, 0) >>]
            /\ focus' = [focus EXCEPT ![t] = Focus("check", c, 1, 0, 0, "", 0)]
    /\ UNCHANGED chars
    /\ RegUnchanged

(***************************************************************************)
(* Variable.__call__ (core/variable.py)                                    *)
(***************************************************************************)
\* Check, blaming the variable the outermost call asked for
CheckBlamesOutermost(t) ==
    /\ focus[t].m = "check"
    /\ LET c == focus[t].ch
           v == focus[t].v
           first == CHOOSE i \in DOMAIN stack[t] :
                       /\ stack[t][i].k = "var"
                       /\ \A j \in DOMAIN stack[t] : stack[t][j].k = "var" => i <= j
       IN /\ focus' = [focus EXCEPT ![t] =
                         IF Lock(c, v)
                         THEN Focus("raise", c, 0, 0, 0, "CircularDependencyError",
                                    IF Chain(t) = {} THEN v ELSE stack[t][first].v)
                         ELSE Focus("set", c, v, 0, 0, "", 0)]
          /\ reent' = [reent EXCEPT ![t] =
                         IF @ = "" /\ v \in Chain(t) THEN InstId(c, v) ELSE @]
    /\ UNCHANGED << chars, stack, acc, out, req, calls, invoked >>
    /\ RegUnchanged

\* Check, with one lock shared by all the Variable instances of the Character
CheckAnyInstance(t) ==
    /\ focus[t].m = "check"
    /\ LET c == focus[t].ch
           v == focus[t].v
       IN /\ focus' = [focus EXCEPT ![t] =
                         IF \E w \in DOMAIN VarGroup(c) : Lock(c, w)
                         THEN Focus("raise", c, 0, 0, 0, "CircularDependencyError", v)
                         ELSE Focus("set", c, v, 0, 0, "", 0)]
          /\ reent' = [reent EXCEPT ![t] =
                         IF @ = "" /\ v \in Chain(t) THEN InstId(c, v) ELSE @]
    /\ UNCHANGED << chars, stack, acc, out, req, calls, invoked >>
    /\ RegUnchanged

\* Check, rejecting exactly the instances on the call chain of the thread
CheckOwnChain(t) ==
    /\ focus[t].m = "check"
    /\ LET c == focus[t].ch
           v == focus[t].v
       IN /\ focus' = [focus EXCEPT ![t] =
                         IF v \in Chain(t)
                         THEN Focus("raise", c, 0, 0, 0, "CircularDependencyError", v)
                         ELSE Focus("set", c, v, 0, 0, "", 0)]
          /\ reent' = [reent EXCEPT ![t] =
                         IF @ = "" /\ v \in Chain(t) THEN InstId(c, v) ELSE @]
    /\ UNCHANGED << chars, stack, acc, out, req, calls, invoked >>
    /\ RegUnchanged

\* Check, never rejecting
CheckNeverRejects(t) ==
    /\ focus[t].m = "check"
    /\ LET c == focus[t].ch
           v == focus[t].v
       IN /\ focus' = [focus EXCEPT ![t] = Focus("set", c, v, 0, 0, "", 0)]
          /\ reent' = [reent EXCEPT ![t] =
                         IF @ = "" /\ v \in Chain(t) THEN InstId(c, v) ELSE @]
    /\ UNCHANGED << chars, stack, acc, out, req, calls, invoked >>
    /\ RegUnchanged

\* if self._lock: raise CircularDependencyError(self)
Check(t) ==
    /\ focus[t].m = "check"
    /\ LET c == focus[t].ch
           v == focus[t].v
       IN /\ focus' = [focus EXCEPT ![t] =
                         IF Lock(c, v)
                         THEN Focus("raise", c, 0, 0, 0, "CircularDependencyError", v)
                         ELSE Focus("set", c, v, 0, 0, "", 0)]
          /\ reent' = [reent EXCEPT ![t] =
                         IF @ = "" /\ v \in Chain(t) THEN InstId(c, v) ELSE @]
    /\ UNCHANGED << chars, stack, acc, out, req, calls, invoked >>
    /\ RegUnchanged

\* SetLock, forgetting to set the flag before the formula is invoked
SetLockForgotten(t) ==
    /\ focus[t].m = "set"
    /\ Len(stack[t]) < MaxDepth
    /\ LET c == focus[t].ch
           v == focus[t].v
       IN /\ stack' = [stack EXCEPT ![t] = Append(@, Frame("var", v, 0, 0))]
          /\ focus' = [focus EXCEPT ![t] = Focus("eval", c, v, 1, 0, "", 0)]
          /\ invoked' = [invoked EXCEPT ![t][InstId(c, v)] = IF @ < 3 THEN @ + 1 ELSE 3]
    /\ UNCHANGED << chars, acc, out, req, calls, reent >>
    /\ RegUnchanged

\* self._lock = True; value = type(self).formula(self.character)  (entry)
SetLock(t) ==
    /\ focus[t].m = "set"
    /\ Len(stack[t]) < MaxDepth
    /\ LET c == focus[t].ch
           v == focus[t].v
       IN /\ chars' = SetLockOf(c, v, TRUE)
          /\ stack' = [stack EXCEPT ![t] = Append(@, Frame("var", v, 0, 0))]
          /\ focus' = [focus EXCEPT ![t] = Focus("eval", c, v, 1, 0, "", 0)]
          /\ invoked' = [invoked EXCEPT ![t][InstId(c, v)] = IF @ < 3 THEN @ + 1 ELSE 3]
    /\ UNCHANGED << acc, out, req, calls, reent >>
    /\ RegUnchanged

\* RetVar, returning without resetting the flag
RetVarKeepsLock(t) ==
    /\ focus[t].m = "ret"
    /\ stack[t] # << >>
    /\ Top(t).k = "var"
    /\ stack' = [stack EXCEPT ![t] = Pop(t)]
    /\ UNCHANGED << chars, focus, acc, out, req, calls, invoked, reent >>
    /\ RegUnchanged

\* RetVar, resetting the flag of the outermost instance of the chain
RetVarClearsOutermost(t) ==
    /\ focus[t].m = "ret"
    /\ stack[t] # << >>
    /\ Top(t).k = "var"
    /\ LET first == CHOOSE i \in DOMAIN stack[t] :
                       /\ stack[t][i].k = "var"
                       /\ \A j \in DOMAIN stack[t] : stack[t][j].k = "var" => i <= j
       IN chars' = SetLockOf(focus[t].ch, stack[t][first].v, FALSE)
    /\ stack' = [stack EXCEPT ![t] = Pop(t)]
    /\ UNCHANGED << focus, acc, out, req, calls, invoked, reent >>
    /\ RegUnchanged

\* self._lock = False; return value
RetVar(t) ==
    /\ focus[t].m = "ret"
    /\ stack[t] # << >>
    /\ Top(t).k = "var"
    /\ chars' = SetLockOf(focus[t].ch, Top(t).v, FALSE)
    /\ stack' = [stack EXCEPT ![t] = Pop(t)]
    /\ UNCHANGED << focus, acc, out, req, calls, invoked, reent >>
    /\ RegUnchanged

(***************************************************************************)
(* Formula evaluation (core/formula.py)                                    *)
(***************************************************************************)
EvalPre(t, op) == focus[t].m = "eval" /\ CurNode(t).op = op
EvalFrameUnchanged == UNCHANGED << chars, acc, out, req, calls, invoked, reent >>

\* Formula.const: lambda character: value
EvalConst(t) ==
    /\ EvalPre(t, "const")
    /\ focus' = [focus EXCEPT ![t] = Focus("ret", @.ch, 0, 0, CurNode(t).x, "", 0)]
    /\ UNCHANGED stack
    /\ EvalFrameUnchanged
    /\ RegUnchanged

\* Formula.var: lambda character: character.get_variable(name)
EvalVar(t) ==
    /\ EvalPre(t, "var")
    /\ focus' = [focus EXCEPT ![t] = EnterGetVariable(@.ch, CurNode(t).name)]
    /\ UNCHANGED stack
    /\ EvalFrameUnchanged
    /\ RegUnchanged

\* Formula.count: lambda character: character.count_elements(element)
EvalCount(t) ==
    /\ EvalPre(t, "count")
    /\ LET r == CountElements(chars[focus[t].ch], CurNode(t).ref, registry)
       IN focus' = [focus EXCEPT ![t] =
                      IF r.e # "" THEN Focus("raise", @.ch, 0, 0, 0, r.e, 0)
                      ELSE Focus("ret", @.ch, 0, 0, r.x, "", 0)]
    /\ UNCHANGED stack
    /\ EvalFrameUnchanged
    /\ RegUnchanged

\* Formula.has: lambda character: character.count_elements(element) > 0
EvalHas(t) ==
    /\ EvalPre(t, "has")
    /\ LET r == CountElements(chars[focus[t].ch], CurNode(t).ref, registry)
       IN focus' = [focus EXCEPT ![t] =
                      IF r.e # "" THEN Focus("raise", @.ch, 0, 0, 0, r.e, 0)
                      ELSE Focus("ret", @.ch, 0, 0, IF r.x > 0 THEN 1 ELSE 0, "", 0)]
    /\ UNCHANGED stack
    /\ EvalFrameUnchanged
    /\ RegUnchanged

\* Formula.if_: expr(character) is evaluated first
EvalIf(t) ==
    /\ EvalPre(t, "if")
    /\ stack' = [stack EXCEPT ![t] = Append(@, Frame("if", focus[t].v, focus[t].n, 0))]
    /\ focus' = [focus EXCEPT ![t].n = CurNode(t).c]
    /\ EvalFrameUnchanged
    /\ RegUnchanged

\* RetIf, calling if_true whatever the value of expr
RetIfAlwaysTrue(t) ==
    /\ focus[t].m = "ret"
    /\ stack[t] # << >>
    /\ Top(t).k = "if"
    /\ LET c == focus[t].ch
           nd == FormulaOf(VarGroup(c)[Top(t).v].cls)[Top(t).n]
       IN focus' = [focus EXCEPT ![t] = Focus("eval", c, Top(t).v, nd.l, 0, "", 0)]
    /\ stack' = [stack EXCEPT ![t] = Pop(t)]
    /\ EvalFrameUnchanged
    /\ RegUnchanged

\* Formula.if_: (if_true if <value> else if_false)(character)
RetIf(t) ==
    /\ focus[t].m = "ret"
    /\ stack[t] # << >>
    /\ Top(t).k = "if"
    /\ LET c == focus[t].ch
           nd == FormulaOf(VarGroup(c)[Top(t).v].cls)[Top(t).n]
       IN focus' = [focus EXCEPT ![t] =
                      Focus("eval", c, Top(t).v,
                            IF focus[t].x # 0 THEN nd.l ELSE nd.r, 0, "", 0)]
    /\ stack' = [stack EXCEPT ![t] = Pop(t)]
    /\ EvalFrameUnchanged
    /\ RegUnchanged

\* Formula._operator / _roperator: the left operand is evaluated first
EvalBin(t) ==
    /\ EvalPre(t, "bin")
    /\ stack' = [stack EXCEPT ![t] = Append(@, Frame("binl", focus[t].v, focus[t].n, 0))]
    /\ focus' = [focus EXCEPT ![t].n = CurNode(t).l]
    /\ EvalFrameUnchanged
    /\ RegUnchanged

\* the left operand has its value: evaluate the right operand
RetBinL(t) ==
    /\ focus[t].m = "ret"
    /\ stack[t] # << >>
    /\ Top(t).k = "binl"
    /\ LET c == focus[t].ch
           nd == FormulaOf(VarGroup(c)[Top(t).v].cls)[Top(t).n]
       IN focus' = [focus EXCEPT ![t] = Focus("eval", c, Top(t).v, nd.r, 0, "", 0)]
    /\ stack' = [stack EXCEPT ![t] =
                   Append(Pop(t), Frame("binr", Top(t).v, Top(t).n, focus[t].x))]
    /\ EvalFrameUnchanged
    /\ RegUnchanged

\* both operands have their values: operator(left, right)
RetBinR(t) ==
    /\ focus[t].m = "ret"
    /\ stack[t] # << >>
    /\ Top(t).k = "binr"
    /\ LET c == focus[t].ch
           nd == FormulaOf(VarGroup(c)[Top(t).v].cls)[Top(t).n]
           r == BinOp(nd.f, Top(t).x, focus[t].x)
       IN focus' = [focus EXCEPT ![t] =
                      IF r.e # "" THEN Focus("raise", c, 0, 0, 0, r.e, 0)
                      ELSE Focus("ret", c, 0, 0, r.x, "", 0)]
    /\ stack' = [stack EXCEPT ![t] = Pop(t)]
    /\ EvalFrameUnchanged
    /\ RegUnchanged

(***************************************************************************)
(* Character.calculated_variables: {k: v() for k, v in variables.items()}  *)
(***************************************************************************)
RetBatch(t) ==
    /\ focus[t].m = "ret"
    /\ stack[t] # << >>
    /\ Top(t).k = "batch"
    /\ LET c == focus[t].ch
           i == Top(t).v
           acc1 == Append(acc[t], << InstId(c, i), focus[t].x >>)
       IN IF i < Len(VarGroup(c))
          THEN /\ acc' = [acc EXCEPT ![t] = acc1]
               /\ stack' = [stack EXCEPT ![t] = << Frame("batch", i + 1, 0, 0) >>]
               /\ focus' = [focus EXCEPT ![t] = Focus("check", c, i + 1, 0, 0, "", 0)]
               /\ UNCHANGED out
          ELSE /\ acc' = [acc EXCEPT ![t] = << >>]
               /\ stack' = [stack EXCEPT ![t] = << >>]
               /\ focus' = [focus EXCEPT ![t] = Idle]
               /\ out' = [out EXCEPT ![t] = Outcome("map", 0, "", 0, acc1)]
    /\ UNCHANGED << chars, req, calls, invoked, reent >>
    /\ RegUnchanged

(***************************************************************************)
(* Return to the outside caller, exception propagation                     *)
(***************************************************************************)
\* the outermost call returns its value
RetTop(t) ==
    /\ focus[t].m = "ret"
    /\ stack[t] = << >>
    /\ out' = [out EXCEPT ![t] = Outcome("value", focus[t].x, "", 0, << >>)]
    /\ focus' = [focus EXCEPT ![t] = Idle]
    /\ UNCHANGED << chars, stack, acc, req, calls, invoked, reent >>
    /\ RegUnchanged

\* Unwind, with calculated_variables leaving out a variable that failed
UnwindSkipsFailed(t) ==
    /\ focus[t].m = "raise"
    /\ stack[t] # << >>
    /\ LET c == focus[t].ch
           i == Top(t).v
       IN IF Top(t).k # "batch"
          THEN /\ stack' = [stack EXCEPT ![t] = Pop(t)]
               /\ UNCHANGED << focus, acc, out >>
          ELSE IF i < Len(VarGroup(c))
          THEN /\ stack' = [stack EXCEPT ![t] = << Frame("batch", i + 1, 0, 0) >>]
               /\ focus' = [focus EXCEPT ![t] = Focus("check", c, i + 1, 0, 0, "", 0)]
               /\ UNCHANGED << acc, out >>
          ELSE /\ acc' = [acc EXCEPT ![t] = << >>]
               /\ stack' = [stack EXCEPT ![t] = << >>]
               /\ focus' = [focus EXCEPT ![t] = Idle]
               /\ out' = [out EXCEPT ![t] = Outcome("map", 0, "", 0, acc[t])]
    /\ UNCHANGED << chars, req, calls, invoked, reent >>
    /\ RegUnchanged

\* an exception leaves the frame on top: no frame of the evaluation core
\* catches it or runs code on the way out (Variable.__call__ has no
\* try/finally around the formula call)
Unwind(t) ==
    /\ focus[t].m = "raise"
    /\ stack[t] # << >>
    /\ stack' = [stack EXCEPT ![t] = Pop(t)]
    /\ acc' = [acc EXCEPT ![t] = IF Top(t).k = "batch" THEN << >> ELSE @]
    /\ UNCHANGED << chars, focus, out, req, calls, invoked, reent >>
    /\ RegUnchanged

\* the exception reaches the outside caller
RaiseTop(t) ==
    /\ focus[t].m = "raise"
    /\ stack[t] = << >>
    /\ out' = [out EXCEPT ![t] = Outcome("error", 0, focus[t].e, focus[t].ev, << >>)]
    /\ focus' = [focus EXCEPT ![t] = Idle]
    /\ UNCHANGED << chars, stack, acc, req, calls, invoked, reent >>
    /\ RegUnchanged

\* one step of the evaluation in progress on thread t
EvalStep(t) ==
    \/ Check(t) \/ SetLock(t) \/ RetVar(t)
    \/ EvalConst(t) \/ EvalVar(t) \/ EvalCount(t) \/ EvalHas(t)
    \/ EvalIf(t) \/ RetIf(t) \/ EvalBin(t) \/ RetBinL(t) \/ RetBinR(t)
    \/ RetBatch(t) \/ RetTop(t) \/ Unwind(t) \/ RaiseTop(t)

(***************************************************************************)
(* Spec: single-threaded evaluation on one Character built from the        *)
(* loaded content                                                          *)
(***************************************************************************)
ImportOrder == << "Wizard", "Fighter", "WizardSpell", "VarA", "VarB", "VarC" >>

RECURSIVE RegisterAll(_, _, _)
RegisterAll(order, i, reg) ==
    IF i > Len(order) THEN reg
    ELSE RegisterAll(order, i + 1, RegistryRegister(reg, order[i]).reg)

EvalLists ==
    { << >>,
      << Wiz, ClsRef("Wizard"), PairRef(CLASS_T, "fighter"), Wiz,
         ClsRef("WizardSpell") >> }

ThreadInit ==
    /\ focus = [t \in Threads |-> Idle]
    /\ stack = [t \in Threads |-> << >>]
    /\ acc = [t \in Threads |-> << >>]
    /\ out = [t \in Threads |-> NoOutcome]
    /\ req = [t \in Threads |-> NoRequest]
    /\ invoked = [t \in Threads |-> ZeroCount]
    /\ reent = [t \in Threads |-> ""]

NoOp == [op |-> "none", e |-> "", x |-> 0, ch |-> 0, ref |-> NoRef,
         list |-> << >>, cls |-> "", n |-> 0]

Init ==
    /\ prog \in DOMAIN Programs
    /\ registry = RegisterAll(ImportOrder, 1, EmptyMap)
    /\ defined = {ImportOrder[i] : i \in DOMAIN ImportOrder}
    /\ \E l \in EvalLists :
         LET r == CharacterInit(l, registry, 1)
         IN chars = << r.ch >> /\ nextOid = r.oid
    /\ calls = << 0 >>
    /\ last = NoOp
    /\ ThreadInit

Next ==
    \/ \E id \in Vars \cup {"Z"} : GetVariable(Main, 1, id)
    \/ CalculatedVariables(Main, 1)
    \/ EvalStep(Main)

Spec == Init /\ [][Next]_vars

(***************************************************************************)
(* SpecReg: class statements, registration, Character construction and     *)
(* count_elements queries, in any order                                    *)
(***************************************************************************)
LastOp(op, e, x, ch, ref, list, cls, n) ==
    [op |-> op, e |-> e, x |-> x, ch |-> ch, ref |-> ref, list |-> list,
     cls |-> cls, n |-> n]

\* the class statements the content modules of this scenario execute
RegClasses == {"Wizard", "Fighter", "WizardSpell", "RogueKind", "WizardAgain",
               "VarA", "VarB"}

\* references the callers of this scenario pass
RefInputs ==
    { Wiz, ClsRef("Wizard"), PairRef(CLASS_T, "fighter"), Rogue,
      ClsRef("RogueKind"), PairRef(SPELL_T, "wizard"), PairRef(ITEM_T, "wizard"),
      ClsRef("VarA"), PairRef(VARIABLE_T, "B") }

\* construction lists the callers of this scenario pass
ListInputs ==
    { << >>,
      << Wiz, ClsRef("Wizard"), PairRef(CLASS_T, "fighter"), Wiz,
         ClsRef("WizardSpell") >>,
      << ClsRef("WizardSpell"), PairRef(CLASS_T, "fighter"), ClsRef("RogueKind") >>,
      << Rogue, Wiz >>,
      << ClsRef("Fighter"), PairRef(ITEM_T, "wizard") >>,
      << ClsRef("Wizard"), PairRef(SPELL_T, "wizard"), Rogue >>,
      << ClsRef("VarA"), PairRef(VARIABLE_T, "A"), ClsRef("VarA"), ClsRef("Wizard") >> }

\* no evaluation is in progress
AllIdle == \A t \in Threads : focus[t].m = "idle"

\* a descriptor can be passed only once its class statement has succeeded
RefUsable(ref) == ref.kind = "cls" => ref.cls \in defined

EvalUnchanged == UNCHANGED << prog, focus, stack, acc, out, req, invoked, reent >>

\* class <cls>(Element / Variable, ...): Element.__init_subclass__ registers
\* the new kind unless register=False; the class exists when no error is raised
DefineKind(cls) ==
    /\ AllIdle
    /\ cls \notin defined
    /\ NamedBy(cls) \subseteq defined
    /\ LET r == InitSubclass(registry, cls)
       IN /\ registry' = r.reg
          /\ defined' = IF r.e = "" THEN defined \cup {cls} ELSE defined
          /\ last' = LastOp("define", r.e, 0, 0, NoRef, << >>, cls, 0)
    /\ UNCHANGED << chars, nextOid, calls >>
    /\ EvalUnchanged

\* Character(list)
NewCharacter(list) ==
    /\ AllIdle
    /\ Len(chars) < MaxChars
    /\ \A i \in DOMAIN list : RefUsable(list[i])
    /\ LET r == CharacterInit(list, registry, nextOid)
       IN /\ chars' = IF r.e = "" THEN Append(chars, r.ch) ELSE chars
          /\ calls' = IF r.e = "" THEN Append(calls, 0) ELSE calls
          /\ nextOid' = IF r.e = "" THEN r.oid ELSE nextOid
          /\ last' = LastOp("new", r.e, 0, 0, NoRef, list, "", Len(chars))
    /\ UNCHANGED << registry, defined >>
    /\ EvalUnchanged

\* character.count_elements(ref) called from outside any evaluation
CountQuery(c, ref) ==
    /\ AllIdle
    /\ RefUsable(ref)
    /\ LET r == CountElements(chars[c], ref, registry)
       IN last' = LastOp("count", r.e, r.x, c, ref, << >>, "", 0)
    /\ UNCHANGED << registry, defined, chars, nextOid, calls >>
    /\ EvalUnchanged

InitReg ==
    /\ prog = 1
    /\ registry = EmptyMap
    /\ defined = {}
    /\ chars = << >>
    /\ nextOid = 1
    /\ calls = << >>
    /\ last = NoOp
    /\ ThreadInit

NextReg ==
    \/ \E cls \in RegClasses : DefineKind(cls)
    \/ \E list \in ListInputs : NewCharacter(list)
    \/ \E c \in DOMAIN chars : \E ref \in RefInputs : CountQuery(c, ref)

SpecReg == InitReg /\ [][NextReg]_vars

(***************************************************************************)
(* SpecDef: class statements and direct calls of the Registry (register,   *)
(* get, __getitem__), in any order                                         *)
(***************************************************************************)
\* the class statements the content modules of this scenario execute
DefClasses == {"Wizard", "WizardAgain", "WizardSpell", "RogueKind", "VarA",
               "Variable", "NoType", "NoId", "NoName", "LooseItem", "LooseSpell",
               "VarNoFormula", "VarNoId"}

\* the (type, id) pairs and the types the callers of this scenario look up
GetInputs == { Wiz, Rogue, PairRef(SPELL_T, "wizard"), PairRef(ITEM_T, "wizard"),
               PairRef(VARIABLE_T, "A") }
TypeInputs == {VARIABLE_T, SPELL_T, ITEM_T, CLASS_T}

CharsUnchanged == UNCHANGED << chars, nextOid, calls >>

\* registry.register(cls) called directly, on Element or on a defined kind
RegisterCall(cls) ==
    /\ AllIdle
    /\ cls \in defined \cup {"Element"}
    /\ LET r == RegistryRegister(registry, cls)
       IN /\ registry' = r.reg
          /\ last' = LastOp("register", r.e, 0, 0, NoRef, << >>, cls, 0)
    /\ UNCHANGED defined
    /\ CharsUnchanged
    /\ EvalUnchanged

\* registry.get(type, id)
GetCall(ref) ==
    /\ AllIdle
    /\ LET r == RegistryGet(registry, ref.type, ref.id)
       IN last' = LastOp("get", r.e, 0, 0, ref, << >>, r.cls, 0)
    /\ UNCHANGED << registry, defined >>
    /\ CharsUnchanged
    /\ EvalUnchanged

\* registry[type]: the descriptors of the mapping returned, in its order
ItemsCall(ty) ==
    /\ AllIdle
    /\ LET items == RegistryItems(registry, ty)
       IN last' = LastOp("items", "", ty, 0, NoRef,
                         [i \in DOMAIN items |-> ClsRef(items[i])], "", 0)
    /\ UNCHANGED << registry, defined >>
    /\ CharsUnchanged
    /\ EvalUnchanged

NextDef ==
    \/ \E cls \in DefClasses : DefineKind(cls)
    \/ \E cls \in defined \cup {"Element"} : RegisterCall(cls)
    \/ \E ref \in GetInputs : GetCall(ref)
    \/ \E ty \in TypeInputs : ItemsCall(ty)

SpecDef == InitReg /\ [][NextDef]_vars

(***************************************************************************)
(* SpecChoices: a kind with options and granted references, its instances  *)
(* in Characters, get_choices and count_elements calls, while further      *)
(* kinds are being defined                                                 *)
(***************************************************************************)
ChoiceClasses == {"Apprentice", "WizardSpell", "VarA", "VarB"}

ChoiceLists == { << ClsRef("Apprentice") >>,
                 << PairRef(SPELL_T, "wizard"), ClsRef("Apprentice") >> }

\* the option indices the callers pass (the last one is out of range)
OptionInputs == 0..Len(Options("Apprentice"))

\* the references the callers count
GrantRefs == { PairRef(SPELL_T, "wizard"), ClsRef("WizardSpell") }

\* GetChoicesCall, resolving VARIABLE candidates against the Variable kinds
\* the Character was constructed with
GetChoicesCallAtConstruction(c, ty, i, option) ==
    /\ AllIdle
    /\ LET cls == chars[c].elements[ty][i].cls
           reg == IF VARIABLE_T \in DOMAIN registry
                  THEN [registry EXCEPT ![VARIABLE_T] =
                          [k \in DOMAIN VarGroup(c) |-> VarGroup(c)[k].cls]]
                  ELSE registry
           r == GetChoices(cls, option, reg)
       IN last' = LastOp("choices", r.e, option, c, NoRef,
                         [k \in DOMAIN r.res |-> ClsRef(r.res[k])], cls, 0)
    /\ UNCHANGED << registry, defined >>
    /\ CharsUnchanged
    /\ EvalUnchanged

\* element.get_choices(option) on instance i of group ty of Character c
GetChoicesCall(c, ty, i, option) ==
    /\ AllIdle
    /\ LET cls == chars[c].elements[ty][i].cls
           r == GetChoices(cls, option, registry)
       IN last' = LastOp("choices", r.e, option, c, NoRef,
                         [k \in DOMAIN r.res |-> ClsRef(r.res[k])], cls, 0)
    /\ UNCHANGED << registry, defined >>
    /\ CharsUnchanged
    /\ EvalUnchanged

NextChoices ==
    \/ \E cls \in ChoiceClasses : DefineKind(cls)
    \/ \E list \in ChoiceLists : NewCharacter(list)
    \/ \E c \in DOMAIN chars : \E ty \in DOMAIN chars[c].elements :
          \E i \in DOMAIN chars[c].elements[ty] : \E option \in OptionInputs :
             GetChoicesCall(c, ty, i, option)
    \/ \E c \in DOMAIN chars : \E ref \in GrantRefs : CountQuery(c, ref)

SpecChoices == InitReg /\ [][NextChoices]_vars

\* the scheduling of a single Python thread: the call in progress keeps running
LiveSpec == Spec /\ WF_vars(EvalStep(Main))

(***************************************************************************)
(* SpecConc: two threads evaluate variables of the same Character; every   *)
(* step of Variable.__call__ and of the formulas of one thread can be      *)
(* followed by a step of the other thread                                  *)
(***************************************************************************)
NextConc ==
    \E t \in Threads :
       \/ \E id \in Vars \cup {"Z"} : GetVariable(t, 1, id)
       \/ CalculatedVariables(t, 1)
       \/ EvalStep(t)

SpecConc == Init /\ [][NextConc]_vars

\* the scheduling of two Python threads: each running call keeps running
LiveConc == SpecConc /\ \A t \in Threads : WF_vars(EvalStep(t))

(***************************************************************************)
(* Vocabulary of the properties                                            *)
(***************************************************************************)
Circ == "CircularDependencyError"
AnyLock(c) == \E v \in DOMAIN VarGroup(c) : Lock(c, v)

\* the variables the formula of id reads, by name
ReadsOf(id) ==
    LET f == Programs[prog][id]
    IN {f[n].name : n \in {i \in DOMAIN f : f[i].op = "var"}}
ReadsClosure(id) ==
    LET s1 == ReadsOf(id)
        s2 == s1 \cup UNION {ReadsOf(w) : w \in s1 \cap Vars}
    IN s2 \cup UNION {ReadsOf(w) : w \in s2 \cap Vars}
\* the dependency graph between the variables has no cycle
Acyclic == \A v \in Vars : v \notin ReadsClosure(v)
\* some variable is read by two formulas, or twice by one formula
SharedDependency ==
    \E w \in Vars :
       \/ \E a, b \in Vars : a # b /\ w \in ReadsOf(a) /\ w \in ReadsOf(b)
       \/ \E a \in Vars :
            LET f == Programs[prog][a]
            IN Cardinality({i \in DOMAIN f : f[i].op = "var" /\ f[i].name = w}) > 1
\* no formula can fail by itself: it reads registered variables, counts
\* registered elements and never divides
FailFree ==
    \A a \in Vars :
       LET f == Programs[prog][a]
       IN \A i \in DOMAIN f :
            /\ f[i].op = "var" => f[i].name \in Vars
            /\ f[i].op \in {"count", "has"} =>
                 CountElements(chars[1], f[i].ref, registry).e = ""
            /\ f[i].op = "bin" => f[i].f # "floordiv"

\* The value of the formula of a variable as a function of the content, the
\* registry and the element groups alone (no lock is read).  fuel bounds
\* the nesting of variable reads.
RECURSIVE Denot(_, _, _)
Denot(id, n, fuel) ==
    LET nd == Programs[prog][id][n]
        cnt == CountElements(chars[1], nd.ref, registry)
    IN CASE nd.op = "const" -> [ok |-> TRUE, x |-> nd.x]
         [] nd.op = "var" ->
              IF VariablesLookup(chars[1], nd.name) = 0 \/ fuel = 0
              THEN [ok |-> FALSE, x |-> 0]
              ELSE Denot(nd.name, 1, fuel - 1)
         [] nd.op = "count" -> [ok |-> cnt.e = "", x |-> cnt.x]
         [] nd.op = "has" -> [ok |-> cnt.e = "", x |-> IF cnt.x > 0 THEN 1 ELSE 0]
         [] nd.op = "if" ->
              LET c == Denot(id, nd.c, fuel)
              IN IF ~c.ok THEN [ok |-> FALSE, x |-> 0]
                 ELSE Denot(id, IF c.x # 0 THEN nd.l ELSE nd.r, fuel)
         [] nd.op = "bin" ->
              LET l == Denot(id, nd.l, fuel)
                  r == Denot(id, nd.r, fuel)
              IN IF ~l.ok \/ ~r.ok THEN [ok |-> FALSE, x |-> 0]
                 ELSE [ok |-> BinOp(nd.f, l.x, r.x).e = "", x |-> BinOp(nd.f, l.x, r.x).x]
ValueOf(id) ==
    IF VariablesLookup(chars[1], id) = 0 THEN [ok |-> FALSE, x |-> 0]
    ELSE Denot(id, 1, Cardinality(Vars) - 1)

(***************************************************************************)
(* C1: whenever a call of Variable.__call__ exits by raising (an error of  *)
(* its formula or a CircularDependencyError raised deeper), the lock of    *)
(* that instance is false afterwards; and when an outermost call has       *)
(* failed, no instance of the Character is locked.                         *)
(***************************************************************************)
C1_LockClearedOnRaise ==
    [][ /\ ( /\ focus[Main].m = "raise"
             /\ stack[Main] # << >>
             /\ Top(Main).k = "var"
             /\ stack'[Main] = Pop(Main) )
           => ~chars'[focus[Main].ch].elements[VARIABLE_T][Top(Main).v].lock
        /\ ( /\ focus[Main].m = "raise"
             /\ focus'[Main].m = "idle" )
           => \A v \in DOMAIN VarGroup(focus[Main].ch) :
                 ~chars'[focus[Main].ch].elements[VARIABLE_T][v].lock
      ]_vars

(***************************************************************************)
(* C2: on a freshly constructed Character, once an evaluation reaches a    *)
(* Variable instance that is already on the active call chain, the call    *)
(* fails with CircularDependencyError naming exactly that instance (the    *)
(* first one reached a second time), and the formula of that instance has  *)
(* been invoked once only.                                                 *)
(***************************************************************************)
C2_CycleNamesReentered ==
    (calls[1] = 1 /\ reent[Main] # "") =>
       /\ invoked[Main][reent[Main]] = 1
       /\ \/ /\ focus[Main].m = "raise"
             /\ focus[Main].e = Circ
             /\ InstId(1, focus[Main].ev) = reent[Main]
          \/ /\ focus[Main].m = "idle"
             /\ out[Main].kind = "error"
             /\ out[Main].e = Circ
             /\ InstId(1, out[Main].ev) = reent[Main]

\* get_variable("B") on a fresh Character ran B -> A -> A and failed naming A
C2_Witness ==
    /\ calls[1] = 1
    /\ req[Main] = Request("get", 1, "B")
    /\ reent[Main] = "A"
    /\ focus[Main].m = "idle"
    /\ out[Main].e = Circ
    /\ InstId(1, out[Main].ev) = "A"

(***************************************************************************)
(* C3: a CircularDependencyError is raised for an instance only when that  *)
(* instance is on the active call chain of the current outermost call,     *)
(* also in calls made after earlier calls failed.                          *)
(***************************************************************************)
C3_CircularOnlyOnChain ==
    [][ ( /\ focus[Main].m = "check"
          /\ focus'[Main].m = "raise"
          /\ focus'[Main].e = Circ )
        => focus[Main].v \in Chain(Main) ]_vars

C5_GetVariableDeterministic ==
    (Acyclic /\ focus[Main].m = "idle" /\ req[Main].op = "get") =>
       /\ (out[Main].kind = "value") = ValueOf(req[Main].id).ok
       /\ out[Main].kind = "value" => out[Main].x = ValueOf(req[Main].id).x

\* C still evaluates to the number of wizards after an earlier call failed
C5_Witness ==
    /\ Acyclic
    /\ prog = 7
    /\ calls[1] = 2
    /\ AnyLock(1)
    /\ req[Main] = Request("get", 1, "C")
    /\ focus[Main].m = "idle"
    /\ out[Main].kind = "value"
    /\ out[Main].x = 3

(***************************************************************************)
(* C6: every outermost call terminates, whatever the dependency graph      *)
(***************************************************************************)
C6_CallTerminates == (focus[Main].m # "idle") ~> (focus[Main].m = "idle")

\* the three-variable cycle A -> B -> C -> A was entered and the call ended
C6_Witness ==
    /\ prog = 5
    /\ req[Main] = Request("get", 1, "A")
    /\ invoked[Main] = [v \in Vars |-> 1]
    /\ focus[Main].m = "idle"
    /\ out[Main].e = Circ

(***************************************************************************)
(* Vocabulary of the registry and construction properties                  *)
(***************************************************************************)
\* the Variable kinds registered now
RegisteredVariables ==
    {RegistryItems(registry, VARIABLE_T)[i] :
        i \in DOMAIN RegistryItems(registry, VARIABLE_T)}
\* the class kinds in a group (identity of the instances aside)
GroupKinds(g) == [i \in DOMAIN g |-> << g[i].cls, g[i].oid >>]
\* g holds exactly one instance of every kind of ks, and nothing else
OnePerKind(g, ks) ==
    /\ \A k \in ks : Cardinality({i \in DOMAIN g : g[i].cls = k}) = 1
    /\ \A i \in DOMAIN g : g[i].cls \in ks
\* the (type, id) a reference names
RefType(ref) == IF ref.kind = "pair" THEN ref.type ELSE ClassDef(ref.cls).type
RefId(ref) == IF ref.kind = "pair" THEN ref.id ELSE ClassDef(ref.cls).id
\* the id a reference names is registered under its type
IdRegistered(ref) ==
    RefType(ref) \in DOMAIN registry /\ RefId(ref) \in RegIds(registry, RefType(ref))
\* the reference denotes a descriptor that is in the registry
DescriptorRegistered(ref) ==
    /\ IdRegistered(ref)
    /\ ref.kind = "cls" => RegistryGet(registry, RefType(ref), RefId(ref)).cls = ref.cls

(***************************************************************************)
(* C7 as claimed: in every reachable state the VARIABLE group of every     *)
(* Character holds exactly one instance per Variable kind registered at    *)
(* that moment.                                                            *)
(***************************************************************************)
C7_OnePerCurrentlyRegistered ==
    \A c \in DOMAIN chars : OnePerKind(VarGroup(c), RegisteredVariables)

(***************************************************************************)
(* C7 as amended: a Character is constructed with exactly one instance per *)
(* Variable kind registered at that moment, whatever Variable references   *)
(* its construction list holds, and its VARIABLE group keeps exactly those *)
(* instances from then on (later registrations add none, none is           *)
(* re-created).                                                            *)
(***************************************************************************)
C7_OnePerRegisteredAtConstruction ==
    [][ \A c \in DOMAIN chars' :
           IF c \in DOMAIN chars
           THEN GroupKinds(chars'[c].elements[VARIABLE_T]) = GroupKinds(VarGroup(c))
           ELSE OnePerKind(chars'[c].elements[VARIABLE_T], RegisteredVariables)
      ]_vars

\* a Character built from a list naming VarA three times holds one VarA
\* instance, created after the four explicit ones, and VarB was registered
\* after the construction
C7_Witness ==
    /\ Len(chars) = 1
    /\ GetElementsByType(chars[1], CLASS_T) = << Inst("Wizard", 4) >>
    /\ VarGroup(1) = << Inst("VarA", 5) >>
    /\ RegisteredVariables = {"VarA", "VarB"}

(***************************************************************************)
(* C8: count_elements returns 0, without failing, for every reference      *)
(* naming an id that is not registered under its type.                     *)
(***************************************************************************)
C8_CountOfUnregisteredIsZero ==
    (last.op = "count" /\ ~IdRegistered(last.ref)) => (last.e = "" /\ last.x = 0)

(***************************************************************************)
(* C9: for a reference to a registered descriptor d, count_elements        *)
(* returns the number of instances in the group of d.type whose id is      *)
(* d.id: 0 when the Character has no group for that type, instances of     *)
(* other types or other ids not counted, duplicates each counted.          *)
(***************************************************************************)
C9_CountIsTypeScopedIdMatch ==
    (last.op = "count" /\ DescriptorRegistered(last.ref)) =>
       LET els == chars[last.ch].elements
           ty == RefType(last.ref)
       IN /\ last.e = ""
          /\ last.x = IF ty \in DOMAIN els
                      THEN Cardinality({i \in DOMAIN els[ty] :
                                          ClassDef(els[ty][i].cls).id = RefId(last.ref)})
                      ELSE 0

\* three wizards counted among a fighter of the same type and a spell of
\* another type whose id is "wizard" too
C9_Witness ==
    /\ last.op = "count"
    /\ last.ref = Wiz
    /\ DescriptorRegistered(last.ref)
    /\ last.x = 3
    /\ Len(GetElementsByType(chars[last.ch], CLASS_T)) = 4
    /\ \E i \in DOMAIN GetElementsByType(chars[last.ch], SPELL_T) :
          ClassDef(chars[last.ch].elements[SPELL_T][i].cls).id = "wizard"

(***************************************************************************)
(* C10: constructing a Character from a list in which some (type, id)      *)
(* reference is not registered fails with KeyError (the not-found error),  *)
(* wherever the reference stands in the list, and adds no Character.       *)
(***************************************************************************)
C10_UnregisteredReferenceFails ==
    (last.op = "new"
       /\ \E i \in DOMAIN last.list :
             last.list[i].kind = "pair" /\ ~IdRegistered(last.list[i])) =>
       /\ last.e = "KeyError"
       /\ Len(chars) = last.n

\* the unregistered reference stands last, after two that resolve
C10_Witness ==
    /\ last.op = "new"
    /\ last.list = << ClsRef("Wizard"), PairRef(SPELL_T, "wizard"), Rogue >>
    /\ IdRegistered(last.list[1]) /\ IdRegistered(last.list[2])
    /\ last.e = "KeyError"
    /\ chars = << >>

(***************************************************************************)
(* Vocabulary of the Registry properties                                   *)
(***************************************************************************)
\* the descriptor bound to (ty, id) in reg, "" when there is none
Bound(reg, ty, id) == RegistryGet(reg, ty, id).cls
\* the step hands the descriptor last'.cls to Registry.register
Registering ==
    \/ last'.op = "register"
    \/ /\ last'.op = "define"
       /\ ClassDef(last'.cls).register
       /\ ClassDef(last'.cls).isVar => Declared(last'.cls).formula
       /\ Declared(last'.cls).check =>
             (Declared(last'.cls).type /\ Declared(last'.cls).id
                /\ Declared(last'.cls).name)

(***************************************************************************)
(* C11: register(d) raises ValueError (the duplicate-id error) whenever a  *)
(* descriptor is already bound to (d.type, d.id) -- d itself or another    *)
(* one, in either order of registration -- and register(Element) raises    *)
(* TypeError; in both cases the Registry is left as it was, the earlier    *)
(* descriptor still bound.                                                 *)
(***************************************************************************)
C11_DuplicateAndBaseRejected ==
    [][ Registering =>
          LET d == last'.cls
              ty == ClassDef(d).type
              id == ClassDef(d).id
          IN /\ d = "Element" => (last'.e = "TypeError" /\ registry' = registry)
             /\ ( /\ d # "Element"
                  /\ Declared(d).type /\ Declared(d).id
                  /\ Bound(registry, ty, id) # "" ) =>
                   /\ last'.e = "ValueError"
                   /\ registry' = registry
                   /\ Bound(registry', ty, id) = Bound(registry, ty, id)
      ]_vars

\* WizardAgain was defined first, the definition of Wizard then failed and
\* (CLASS, "wizard") is still bound to WizardAgain
C11_Witness ==
    /\ last.op = "define"
    /\ last.cls = "Wizard"
    /\ last.e = "ValueError"
    /\ "Wizard" \notin defined
    /\ Bound(registry, CLASS_T, "wizard") = "WizardAgain"

(***************************************************************************)
(* C12: the Registry is append-only and write-once per id.  Over every     *)
(* step -- a class statement, register, get or registry[type], succeeding  *)
(* or failing -- every (type, id) bound to a descriptor stays bound to     *)
(* that descriptor; get returns the bound descriptor; get and              *)
(* registry[type] leave the Registry as it was, and registry[type] for a   *)
(* type without entry returns an empty mapping and creates no entry.       *)
(***************************************************************************)
C12_WriteOncePerId ==
    [][ /\ \A ty \in DOMAIN registry : \A id \in RegIds(registry, ty) :
              Bound(registry', ty, id) = Bound(registry, ty, id)
        /\ last'.op \in {"get", "items"} => registry' = registry
        /\ last'.op = "get" =>
              /\ last'.cls = Bound(registry, last'.ref.type, last'.ref.id)
              /\ (last'.e = "") = (last'.cls # "")
        /\ (last'.op = "items" /\ last'.x \notin DOMAIN registry) =>
              (last'.list = << >> /\ last'.x \notin DOMAIN registry')
      ]_vars

\* registry[ITEM] returned an empty mapping and made no entry; Wizard holds
\* (CLASS, "wizard") and RogueKind was registered by a direct call
C12_Witness ==
    /\ last.op = "items"
    /\ last.x = ITEM_T
    /\ last.list = << >>
    /\ ITEM_T \notin DOMAIN registry
    /\ Bound(registry, CLASS_T, "wizard") = "Wizard"
    /\ "WizardAgain" \notin defined
    /\ Bound(registry, CLASS_T, "rogue") = "RogueKind"

(***************************************************************************)
(* C13: calculated_variables is all-or-nothing.  When it returns, it       *)
(* returns a mapping with exactly one entry per Variable instance of the   *)
(* Character, in the order of the instances, each value being the value    *)
(* get_variable gives for that id; once the evaluation of a variable       *)
(* raises, the exception travels unchanged to the caller, who gets the     *)
(* error and no mapping, not even the entries computed so far.             *)
(***************************************************************************)
C13_AllOrNothing ==
    /\ [] ( (req[Main].op = "all" /\ focus[Main].m = "idle") =>
              \/ /\ out[Main].kind = "map"
                 /\ DOMAIN out[Main].m = DOMAIN VarGroup(1)
                 /\ \A i \in DOMAIN out[Main].m :
                       /\ ValueOf(InstId(1, i)).ok
                       /\ out[Main].m[i] = << InstId(1, i), ValueOf(InstId(1, i)).x >>
              \/ /\ out[Main].kind = "error"
                 /\ out[Main].m = << >> )
    /\ [][ (req[Main].op = "all" /\ focus[Main].m = "raise") =>
              \/ /\ focus'[Main].m = "raise"
                 /\ focus'[Main].e = focus[Main].e
                 /\ out'[Main].kind = "none"
              \/ /\ focus'[Main].m = "idle"
                 /\ out'[Main].kind = "error"
                 /\ out'[Main].e = focus[Main].e
                 /\ out'[Main].m = << >>
         ]_vars

\* the batch returned A = C + C, B = A - C and C = 3
C13_Witness ==
    /\ prog = 2
    /\ req[Main].op = "all"
    /\ focus[Main].m = "idle"
    /\ out[Main].kind = "map"
    /\ out[Main].m = << << "A", 6 >>, << "B", 3 >>, << "C", 3 >> >>

(***************************************************************************)
(* Vocabulary of the conditional                                           *)
(***************************************************************************)
\* the formula of instance v of the Character evaluated in Spec
FormulaAt(v) == FormulaOf(VarGroup(1)[v].cls)
\* node n of the formula of v is the condition or a branch of a conditional
UnderIf(v, n) ==
    \E k \in DOMAIN FormulaAt(v) :
       FormulaAt(v)[k].op = "if" /\ n \in {FormulaAt(v)[k].c, FormulaAt(v)[k].l,
                                           FormulaAt(v)[k].r}
\* the variables an evaluation of node n of the formula of id reads, nested
\* reads included, a conditional contributing its condition and the branch
\* its condition selects
RECURSIVE Reached(_, _, _)
Reached(id, n, fuel) ==
    LET nd == Programs[prog][id][n]
    IN CASE nd.op = "var" ->
              {nd.name} \cup
                 (IF VariablesLookup(chars[1], nd.name) = 0 \/ fuel = 0 THEN {}
                  ELSE Reached(nd.name, 1, fuel - 1))
         [] nd.op = "if" ->
              Reached(id, nd.c, fuel) \cup
                 (IF ~Denot(id, nd.c, fuel).ok THEN {}
                  ELSE Reached(id, IF Denot(id, nd.c, fuel).x # 0 THEN nd.l ELSE nd.r,
                               fuel))
         [] nd.op = "bin" -> Reached(id, nd.l, fuel) \cup Reached(id, nd.r, fuel)
         [] OTHER -> {}

(***************************************************************************)
(* C14: an evaluation of if_(expr, if_true, if_false) evaluates expr once  *)
(* and then the one branch the value of expr selects (if_true when truthy, *)
(* if_false otherwise); a condition or a branch is entered in no other     *)
(* way.  Consequently, on a fresh Character, get_variable returns the      *)
(* value computed along the selected branches whenever that computation    *)
(* succeeds, whatever the other branches hold, and only the variables read *)
(* along the selected branches ever have their formula invoked or their    *)
(* lock set.                                                               *)
(***************************************************************************)
C14_ConditionalShortCircuit ==
    /\ [][ /\ (focus[Main].m = "eval" /\ CurNode(Main).op = "if") =>
                /\ focus'[Main] = [focus[Main] EXCEPT !.n = CurNode(Main).c]
                /\ stack'[Main] =
                      Append(stack[Main], Frame("if", focus[Main].v, focus[Main].n, 0))
                /\ chars' = chars
           /\ (focus[Main].m = "ret" /\ stack[Main] # << >> /\ Top(Main).k = "if") =>
                LET nd == FormulaAt(Top(Main).v)[Top(Main).n]
                IN /\ focus'[Main].m = "eval"
                   /\ focus'[Main].v = Top(Main).v
                   /\ focus'[Main].n = IF focus[Main].x # 0 THEN nd.l ELSE nd.r
                   /\ stack'[Main] = Pop(Main)
                   /\ chars' = chars
           /\ ( /\ focus'[Main] # focus[Main]
                /\ focus'[Main].m = "eval"
                /\ UnderIf(focus'[Main].v, focus'[Main].n) ) =>
                \/ focus[Main].m = "eval" /\ CurNode(Main).op = "if"
                \/ focus[Main].m = "ret" /\ stack[Main] # << >> /\ Top(Main).k = "if"
         ]_vars
    /\ [] ( (calls[1] = 1 /\ req[Main].op = "get" /\ ValueOf(req[Main].id).ok) =>
              /\ focus[Main].m # "raise"
              /\ focus[Main].m = "idle" =>
                    (out[Main].kind = "value" /\ out[Main].x = ValueOf(req[Main].id).x)
              /\ \A i \in DOMAIN VarGroup(1) :
                    (invoked[Main][InstId(1, i)] > 0 \/ Lock(1, i)) =>
                       InstId(1, i) \in {req[Main].id} \cup Reached(req[Main].id, 1, 2) )

\* A = if_(has(wizard), B, A) on a Character with wizards: A returned the
\* value of B and the branch that reads A again was not entered
C14_Witness ==
    /\ prog = 8
    /\ calls[1] = 1
    /\ req[Main] = Request("get", 1, "A")
    /\ CountElements(chars[1], Wiz, registry).x > 0
    /\ focus[Main].m = "idle"
    /\ out[Main].kind = "value"
    /\ out[Main].x = 2
    /\ invoked[Main] = [v \in Vars |-> IF v = "C" THEN 0 ELSE 1]

(***************************************************************************)
(* Vocabulary of the options                                               *)
(***************************************************************************)
\* the descriptors registered under type ty
RegisteredOf(ty) ==
    {RegistryItems(registry, ty)[i] : i \in DOMAIN RegistryItems(registry, ty)}
\* the descriptors a candidate denotes in the registry
Denotes(cand) ==
    CASE cand.kind = "cls" -> {cand.cls}
      [] cand.kind = "pair" -> {Bound(registry, cand.type, cand.id)} \ {""}
      [] cand.kind = "pred" -> {d \in RegisteredOf(cand.type) : SpecHolds(cand.id, d)}
      [] cand.kind = "type" -> RegisteredOf(cand.type)
\* the Variable kinds registered after Character c was constructed
LateVariables(c) ==
    RegisteredOf(VARIABLE_T) \ {VarGroup(c)[i].cls : i \in DOMAIN VarGroup(c)}

(***************************************************************************)
(* C15: get_choices reads the Registry at the time of the call.  A call    *)
(* that returns gives exactly the union, over the candidates of the        *)
(* option, of the descriptors each candidate denotes in the Registry as it *)
(* is at the call: a descriptor registered after the owning kind was       *)
(* defined and after the Character was constructed is included for a bare  *)
(* type candidate of its type and for a (type, predicate) candidate it     *)
(* satisfies.                                                              *)
(***************************************************************************)
C15_ChoicesReadRegistryAtCall ==
    (last.op = "choices" /\ last.e = "") =>
       LET cands == Options(last.cls)[last.x + 1]
       IN /\ {last.list[k].cls : k \in DOMAIN last.list}
                = UNION {Denotes(cands[k]) : k \in DOMAIN cands}
          /\ \A k \in DOMAIN cands : \A d \in LateVariables(last.ch) :
                \/ cands[k] = TypeCand(VARIABLE_T)
                \/ cands[k].kind = "pred" /\ cands[k].type = VARIABLE_T
                                          /\ SpecHolds(cands[k].id, d)
                => \E j \in DOMAIN last.list : last.list[j].cls = d

\* VarB was registered after the Character holding the Apprentice was built
\* (the Character has no VarB instance); the (VARIABLE, predicate) option
\* resolves to VarB and the WizardSpell descriptor
C15_Witness ==
    /\ last.op = "choices"
    /\ last.e = ""
    /\ last.cls = "Apprentice"
    /\ last.x = 1
    /\ LateVariables(last.ch) = {"VarB"}
    /\ {last.list[k].cls : k \in DOMAIN last.list} = {"VarB", "WizardSpell"}

(***************************************************************************)
(* C16: concurrent evaluation falsely triggers the circular-dependency     *)
(* signal.  The lock test of Variable.__call__ fails exactly when the flag *)
(* of the instance is set, whichever chain set it; with acyclic formulas   *)
(* the instance tested is never on the chain of the testing thread, so     *)
(* every CircularDependencyError raised over acyclic formulas is raised    *)
(* for an instance the failing chain had not entered.                      *)
(***************************************************************************)
C16_FalseTrigger ==
    [][ \A t \in Threads :
           (focus[t].m = "check" /\ focus'[t] # focus[t]) =>
              /\ (focus'[t].m = "raise" /\ focus'[t].e = Circ /\ focus'[t].ev = focus[t].v)
                    <=> Lock(focus[t].ch, focus[t].v)
              /\ Acyclic => focus[t].v \notin Chain(t)
      ]_vars

\* A = C + 1, B = C * 2: while thread 1 evaluates C for get_variable("A"),
\* get_variable("B") of thread 2 has failed with CircularDependencyError
\* naming C, and thread 2 had re-entered no instance
C16_Witness ==
    /\ prog = 1
    /\ Acyclic /\ FailFree
    /\ req[1] = Request("get", 1, "A")
    /\ req[2] = Request("get", 1, "B")
    /\ focus[1].m = "eval"
    /\ Chain(1) = {VariablesLookup(chars[1], "A"), VariablesLookup(chars[1], "C")}
    /\ focus[2].m = "idle"
    /\ out[2].kind = "error"
    /\ out[2].e = Circ
    /\ InstId(1, out[2].ev) = "C"
    /\ reent[2] = ""

(***************************************************************************)
(* Vocabulary of C17                                                       *)
(***************************************************************************)
\* thread t has passed the lock test of an instance that is on its own chain
Suppressed(t) == focus[t].m = "set" /\ focus[t].v \in Chain(t)
\* both threads have passed the lock test of the same instance, whose
\* formula leads back to it, before either of them set the flag
RacedIntoCycle ==
    \E v \in DOMAIN VarGroup(1) :
       /\ \A t \in Threads : v \in Chain(t)
       /\ InstId(1, v) \in ReadsClosure(InstId(1, v))
\* every lock test of an instance on the chain of the testing thread fails
\* (holds in SpecConc)
ReentryAlwaysRejected ==
    [][ \A t \in Threads :
           (focus[t].m = "check" /\ focus'[t] # focus[t] /\ focus[t].v \in Chain(t)) =>
              (focus'[t].m = "raise" /\ focus'[t].e = Circ) ]_vars

LacksMetadata(c) == ~(Declared(c).type /\ Declared(c).id /\ Declared(c).name)
\* c is a Variable kind without bound formula
LacksFormula(c) == ClassDef(c).isVar /\ ~Declared(c).formula

(***************************************************************************)
(* C18 as claimed: every definition of an Element kind that lacks a        *)
(* resolvable type, id or name, or of a Variable kind that lacks a bound   *)
(* Formula, fails, and the Registry after the failure is the Registry      *)
(* before it.                                                              *)
(***************************************************************************)
C18_MalformedDefinitionFails ==
    [][ (last'.op = "define" /\ (LacksMetadata(last'.cls) \/ LacksFormula(last'.cls))) =>
           (last'.e # "" /\ registry' = registry) ]_vars

(***************************************************************************)
(* C18 as amended: a definition checked for its metadata (_check left at   *)
(* its default) that lacks a resolvable type, id or name, and every        *)
(* definition of a Variable kind that lacks a bound Formula, fails with    *)
(* TypeError; no kind is defined and the Registry stays as it was.         *)
(***************************************************************************)
C18_CheckedDefinitionFails ==
    [][ ( /\ last'.op = "define"
          /\ \/ Declared(last'.cls).check /\ LacksMetadata(last'.cls)
             \/ LacksFormula(last'.cls) ) =>
           (last'.e = "TypeError" /\ registry' = registry /\ defined' = defined) ]_vars

\* the definition of an ITEM kind without name failed: nothing is registered
\* under ITEM although other kinds are registered
C18_Witness ==
    /\ last.op = "define"
    /\ last.cls = "NoName"
    /\ last.e = "TypeError"
    /\ "NoName" \notin defined
    /\ ITEM_T \notin DOMAIN registry
    /\ Bound(registry, CLASS_T, "wizard") # ""

(***************************************************************************)
(* Vocabulary of the granted references                                    *)
(***************************************************************************)
\* some element instance of Character c is of a kind that grants the
\* (type, id) the reference names
GrantedIn(c, ref) ==
    \E ty \in DOMAIN chars[c].elements : \E i \in DOMAIN chars[c].elements[ty] :
       \E k \in DOMAIN Granted(chars[c].elements[ty][i].cls) :
          LET g == Granted(chars[c].elements[ty][i].cls)[k]
          IN RefType(g) = RefType(ref) /\ RefId(g) = RefId(ref)

(***************************************************************************)
(* C19: a registered descriptor granted by the kind of an element of the   *)
(* Character is present in the Character: count_elements of it returns at  *)
(* least 1 (so has() is true), also when the construction list did not     *)
(* name it.                                                                *)
(***************************************************************************)
C19_GrantedIsPresent ==
    (last.op = "count" /\ DescriptorRegistered(last.ref) /\ GrantedIn(last.ch, last.ref))
       => (last.e = "" /\ last.x >= 1)

(***************************************************************************)
(* Vocabulary of C20                                                       *)
(***************************************************************************)
\* no evaluation on the Character has failed so far: nothing can fail in
\* the loaded content, or the first outermost call is running or has
\* returned its result
SuccessPath ==
    \/ Acyclic /\ FailFree
    \/ calls[1] <= 1 /\ focus[Main].m # "raise" /\ out[Main].kind # "error"

(***************************************************************************)
(* C20: on the success path the flag of a Variable instance is set exactly *)
(* while the formula of the instance is being evaluated (from the entry    *)
(* into the formula until Variable.__call__ returns its value); the return *)
(* of a value leaves the flag false; and the lock test of an instance that *)
(* is not being evaluated passes, so the instance is evaluated again, in a *)
(* later outermost call or a second time within the same one, without      *)
(* CircularDependencyError.                                                *)
(***************************************************************************)
C20_LockCycleOnSuccess ==
    /\ [] ( SuccessPath =>
              \A v \in DOMAIN VarGroup(1) : Lock(1, v) <=> v \in Chain(Main) )
    /\ [][ /\ ( /\ focus[Main].m = "ret"
                /\ stack[Main] # << >>
                /\ Top(Main).k = "var"
                /\ stack'[Main] = Pop(Main) ) =>
               ~chars'[focus[Main].ch].elements[VARIABLE_T][Top(Main).v].lock
           /\ ( /\ SuccessPath
                /\ focus[Main].m = "check"
                /\ focus'[Main] # focus[Main]
                /\ focus[Main].v \notin Chain(Main) ) =>
               (focus'[Main].m = "set" /\ focus'[Main].v = focus[Main].v)
         ]_vars

\* A = C + C: in a second outermost call, C was evaluated twice within the
\* evaluation of A, the call returned 6 and no flag is set
C20_Witness ==
    /\ prog = 2
    /\ calls[1] = 2
    /\ req[Main] = Request("get", 1, "A")
    /\ invoked[Main]["C"] = 2
    /\ focus[Main].m = "idle"
    /\ out[Main].kind = "value"
    /\ out[Main].x = 6
    /\ ~AnyLock(1)

(***************************************************************************)
(* Vocabulary of C21                                                       *)
(***************************************************************************)
\* the active calls of Variable.__call__ of thread t, outermost first
VarFrames(t) == SelectSeq(stack[t], LAMBDA fr : fr.k = "var")

(***************************************************************************)
(* C21: in every state of single-threaded evaluation, whatever calls       *)
(* failed before, the active chain of Variable.__call__ calls holds no     *)
(* instance twice, every instance on it has its flag set, and the chain is *)
(* no deeper than the number of Variable instances of the Character.       *)
(***************************************************************************)
C21_ChainDistinctAndLocked ==
    LET fs == VarFrames(Main)
    IN /\ \A i, j \in DOMAIN fs : fs[i].v = fs[j].v => i = j
       /\ \A i \in DOMAIN fs : Lock(1, fs[i].v)
       /\ Len(fs) <= Len(VarGroup(1))

\* after get_variable of A failed and left the flag of A set, a later call
\* is evaluating C inside B: the chain is B, C, both flags set
C21_Witness ==
    /\ prog = 7
    /\ calls[1] = 2
    /\ req[Main] = Request("get", 1, "B")
    /\ LET fs == VarFrames(Main)
       IN /\ Len(fs) = 2
          /\ InstId(1, fs[1].v) = "B"
          /\ InstId(1, fs[2].v) = "C"
          /\ Lock(1, fs[1].v) /\ Lock(1, fs[2].v)
    /\ Lock(1, VariablesLookup(chars[1], "A"))

=============================================================================
